---- MODULE Spec2Model ----
(***************************************************************************)
(* Model of src/ingest_html_via_api.py: the extractor extract_article_data *)
(* and the batch driver ingest_html_files working against the store table  *)
(* "stratechery_issues".                                                   *)
(*                                                                         *)
(* Strings are sequences of tokens.  In body text the tokens are the       *)
(* letters "a" and "b", the space " ", the newline "\n" and the footer     *)
(* marker in two letter cases: "m" is "share this:" and "M" is             *)
(* "Share This:".  In titles and file names the tokens are letters, the    *)
(* space, the en dash ("ndash"), the hyphen, the site suffix exactly as the source   *)
(* spells it ("SBT" = "Stratechery by Ben Thompson"), the same suffix in   *)
(* another letter case ("sbt") and the extension ".html".                  *)
(***************************************************************************)
EXTENDS Integers, Sequences, FiniteSets, TLC

\* ------------------------------------------------------------------ bounds
\* Body texts are built from at most MaxPieces pieces of Pieces.
MaxPieces == 3
\* Files a directory holds when a batch enumerates it.
MaxFiles == 2
\* Failures (I/O errors, store errors, silent non-inserts) the environment
\* injects in one behaviour.
MaxFaults == 1

\* ------------------------------------------------------- Python's values
None == "None"
Raised == "Raised"

\* ------------------------------------------------------- string helpers
Whitespace == {" ", "\n"}
Markers == {"m", "M"}

RECURSIVE lstrip(_)
lstrip(s) ==
    IF s = <<>> THEN <<>>
    ELSE IF Head(s) \in Whitespace THEN lstrip(Tail(s)) ELSE s

RECURSIVE rstrip(_)
rstrip(s) ==
    IF s = <<>> THEN <<>>
    ELSE IF s[Len(s)] \in Whitespace THEN rstrip(SubSeq(s, 1, Len(s) - 1)) ELSE s

\* str.strip()
strip(s) == rstrip(lstrip(s))

\* Whether pat occurs in s starting at index i.
StartsAt(s, pat, i) ==
    /\ i + Len(pat) - 1 <= Len(s)
    /\ \A k \in 1..Len(pat) : s[i + k - 1] = pat[k]

\* str.replace(pat, ""): every non-overlapping occurrence, left to right.
RECURSIVE replace_with_empty(_, _)
replace_with_empty(s, pat) ==
    IF s = <<>> THEN <<>>
    ELSE IF StartsAt(s, pat, 1)
         THEN replace_with_empty(SubSeq(s, Len(pat) + 1, Len(s)), pat)
         ELSE <<Head(s)>> \o replace_with_empty(Tail(s), pat)

\* len(s.split()): the number of maximal runs of non-whitespace tokens.
RECURSIVE word_count(_)
word_count(s) ==
    IF s = <<>> THEN 0
    ELSE IF Head(s) \in Whitespace THEN word_count(Tail(s))
    ELSE IF Len(s) = 1 \/ s[2] \in Whitespace THEN 1 + word_count(Tail(s))
    ELSE word_count(Tail(s))

\* ------------------------------------------------------ text clean-up
\* Length of the run of newlines at the head of s.
RECURSIVE NewlineRun(_)
NewlineRun(s) ==
    IF s = <<>> \/ Head(s) # "\n" THEN 0 ELSE 1 + NewlineRun(Tail(s))

\* re.sub(r'\n{3,}', '\n\n', s)
RECURSIVE collapse_newlines(_)
collapse_newlines(s) ==
    IF s = <<>> THEN <<>>
    ELSE LET n == NewlineRun(s) IN
         IF n >= 3 THEN <<"\n", "\n">> \o collapse_newlines(SubSeq(s, n + 1, Len(s)))
         ELSE IF n >= 1 THEN SubSeq(s, 1, n) \o collapse_newlines(SubSeq(s, n + 1, Len(s)))
         ELSE <<Head(s)>> \o collapse_newlines(Tail(s))

\* re.sub(r'(?i)share this:.*$', '', s, flags=re.DOTALL): everything from the
\* first marker, in any letter case, to the end goes.
RECURSIVE remove_footer(_)
remove_footer(s) ==
    IF s = <<>> THEN <<>>
    ELSE IF Head(s) \in Markers THEN <<>>
    ELSE <<Head(s)>> \o remove_footer(Tail(s))

\* The clean-up with the strip taken first: what the cut of the footer
\* uncovers is not stripped.
clean_up_text_StripsFirst(s) == remove_footer(collapse_newlines(strip(s)))

\* Lines 72-77.
clean_up_text(s) == strip(remove_footer(collapse_newlines(s)))

\* ------------------------------------------------------------- hashing
TokenCode(c) ==
    CASE c = "a" -> 1 [] c = "b" -> 2 [] c = " " -> 3 [] c = "\n" -> 4
      [] c = "m" -> 5 [] c = "M" -> 6 [] c = "A" -> 7 [] c = "B" -> 8
      [] c = "ndash" -> 9 [] c = "-" -> 10 [] c = "SBT" -> 11 [] c = "sbt" -> 12
      [] OTHER -> 13

\* hashlib.sha256(text.encode('utf-8')).hexdigest(), with the digest modelled as
\* collision free: the sequence of the tokens' codes, so that different texts
\* get different digests.
sha256_hexdigest(s) == [i \in 1..Len(s) |-> TokenCode(s[i])]

\* ------------------------------------------------------ parsed documents
(***************************************************************************)
(* A document as BeautifulSoup(html_content, 'html.parser') sees it:       *)
(*   title_tag  what soup.find('title') finds: <<>> without a <title>,     *)
(*              else the one-element sequence of the element's text;       *)
(*   time       "absent" (no <time> element with a datetime attribute), or *)
(*              the attribute's value;                                     *)
(*   canonical  "absent" (no <link rel=canonical>), "nohref" (the link has *)
(*              no href attribute) or "href";                              *)
(*   container  "entry" (a div whose class matches entry-content),         *)
(*              "article" (an <article>) or "none";                        *)
(*   text       the text node of the body;                                 *)
(*   extras     whether the body also holds an <aside> and an element of a *)
(*              "related" class, each with the text "b".                   *)
(***************************************************************************)
IsoDate == "2024-01-02T03:04:05+00:00"
IsoDateZ == "2024-01-02T03:04:05Z"
BadDate == "yesterday"
HrefValue == "https://stratechery.com/a"

\* The strings of the body in document order: [unwanted |-> removed from an
\* entry-content container, text |-> the string].
BodyNodes(html) ==
    <<[unwanted |-> FALSE, text |-> html.text]>>
    \o (IF html.extras
        THEN <<[unwanted |-> TRUE, text |-> <<"b">>], [unwanted |-> TRUE, text |-> <<" ", "b">>]>>
        ELSE <<>>)

\* Tag.get_text(separator='\n', strip=True) over a sequence of strings: each is
\* stripped, the empty ones are dropped, the rest are joined by newlines.
RECURSIVE get_text(_)
get_text(strings) ==
    IF strings = <<>> THEN <<>>
    ELSE LET first == strip(Head(strings))
             rest == get_text(Tail(strings))
         IN  IF first = <<>> THEN rest
             ELSE IF rest = <<>> THEN first
             ELSE first \o <<"\n">> \o rest

RECURSIVE TextsOf(_)
TextsOf(nodes) ==
    IF nodes = <<>> THEN <<>> ELSE <<Head(nodes).text>> \o TextsOf(Tail(nodes))

\* content_div after the two decompose() loops of lines 55-60.
RECURSIVE decompose_unwanted(_)
decompose_unwanted(nodes) ==
    IF nodes = <<>> THEN <<>>
    ELSE IF Head(nodes).unwanted THEN decompose_unwanted(Tail(nodes))
    ELSE <<Head(nodes)>> \o decompose_unwanted(Tail(nodes))

\* Lines 50-70: the text of the entry-content div without its unwanted
\* elements, else of the <article>, else of the whole document (which holds
\* the <title> string too).
body_text(html) ==
    IF html.container = "entry"
    THEN get_text(TextsOf(decompose_unwanted(BodyNodes(html))))
    ELSE IF html.container = "article"
    THEN get_text(TextsOf(BodyNodes(html)))
    ELSE get_text(html.title_tag \o TextsOf(BodyNodes(html)))

\* ----------------------------------------------------------------- title
Dashes == {"ndash", "-"}
Suffix == "SBT"

\* Whether s[i..] matches \s*[ndash-]\s*Stratechery by Ben Thompson\s*$
RECURSIVE SkipSpaces(_, _)
SkipSpaces(s, i) ==
    IF i <= Len(s) /\ s[i] \in Whitespace THEN SkipSpaces(s, i + 1) ELSE i

SuffixMatchesAt(s, i) ==
    LET d == SkipSpaces(s, i) IN
    /\ d <= Len(s) /\ s[d] \in Dashes
    /\ LET n == SkipSpaces(s, d + 1) IN
       /\ n <= Len(s) /\ s[n] = Suffix
       /\ SkipSpaces(s, n + 1) = Len(s) + 1

\* The title regex with the en dash alone in its character class.
strip_site_suffix_EnDashOnly(s) ==
    LET starts == {i \in 1..Len(s) : SuffixMatchesAt(s, i) /\ s[SkipSpaces(s, i)] = "ndash"} IN
    IF starts = {} THEN s
    ELSE SubSeq(s, 1, (CHOOSE i \in starts : \A j \in starts : i <= j) - 1)

\* re.sub(r'\s*[ndash-]\s*Stratechery by Ben Thompson\s*$', '', title): the
\* leftmost match is cut.
strip_site_suffix(s) ==
    LET starts == {i \in 1..Len(s) : SuffixMatchesAt(s, i)} IN
    IF starts = {} THEN s
    ELSE SubSeq(s, 1, (CHOOSE i \in starts : \A j \in starts : i <= j) - 1)

\* Lines 24-33.
resolve_title(html, filename) ==
    IF html.title_tag # <<>>
    THEN strip(strip_site_suffix(html.title_tag[1]))
    ELSE replace_with_empty(replace_with_empty(filename, <<".html">>),
                            <<" ", "ndash", Suffix>>)

\* ------------------------------------------------------ publication date
\* datetime_str.replace('Z', '+00:00')
replace_Z(datetime_str) ==
    IF datetime_str = IsoDateZ THEN IsoDate ELSE datetime_str

\* datetime.fromisoformat: the value, or Raised for a ValueError.
fromisoformat(str) == IF str = IsoDate THEN str ELSE Raised

\* Lines 35-44 and 84: None without a time element or when the parse raises
\* (the ValueError is caught), else the parsed date's isoformat().
publication_date(html) ==
    LET time_tag == IF html.time = "absent" THEN None ELSE html.time IN
    IF time_tag = None THEN None
    ELSE LET parsed == fromisoformat(replace_Z(time_tag)) IN
         IF parsed = Raised THEN None ELSE parsed

\* ------------------------------------------------------- canonical URL
\* Tag.get('href'): the attribute, None when the element lacks it; on None
\* itself the attribute access raises.
get_href(element) ==
    CASE element = None -> Raised
      [] element = "nohref" -> None
      [] OTHER -> HrefValue

\* Line 48 without its "if canonical" guard.
canonical_url_Unguarded(html) ==
    LET canonical == IF html.canonical = "absent" THEN None ELSE html.canonical IN
    get_href(canonical)

\* Lines 46-48.
canonical_url(html) ==
    LET canonical == IF html.canonical = "absent" THEN None ELSE html.canonical IN
    IF canonical # None THEN get_href(canonical) ELSE ""

\* ------------------------------------------------------------ extractor
\* The digest taken of the text as extracted, before lines 72-77 clean it up.
extract_article_data_HashesRawText(html_content, filename) ==
    LET clean_text == clean_up_text(body_text(html_content))
        url == canonical_url(html_content)
        pub_date == publication_date(html_content)
    IN  [raised |-> Raised \in {url, pub_date},
         title |-> resolve_title(html_content, filename),
         publication_date |-> pub_date,
         cleaned_text |-> clean_text,
         raw_html |-> html_content,
         canonical_url |-> url,
         word_count |-> word_count(clean_text),
         content_hash |-> sha256_hexdigest(body_text(html_content))]

\* Lines 20-90.  raised tells whether an exception left the function.
extract_article_data(html_content, filename) ==
    LET clean_text == clean_up_text(body_text(html_content))
        url == canonical_url(html_content)
        pub_date == publication_date(html_content)
    IN  [raised |-> Raised \in {url, pub_date},
         title |-> resolve_title(html_content, filename),
         publication_date |-> pub_date,
         cleaned_text |-> clean_text,
         raw_html |-> html_content,
         canonical_url |-> url,
         word_count |-> word_count(clean_text),
         content_hash |-> sha256_hexdigest(clean_text)]

\* ------------------------------------------------------ files on disk
(***************************************************************************)
(* The files a directory may hold.  B.html is a copy of A.html (the same   *)
(* document twice); C.html has A's title and another body; D.html has no   *)
(* <title>, other markup and a footer, and the cleaned text of C.html.     *)
(***************************************************************************)
FileA == <<"A", ".html">>
FileB == <<"B", ".html">>
FileC == <<"C", ".html">>
FileD == <<"D", ".html">>
FileNames == {FileA, FileB, FileC, FileD}

DocA ==
    [title_tag |-> <<<<"A", " ", "ndash", " ", "SBT">>>>, time |-> IsoDateZ,
     canonical |-> "href", container |-> "entry", text |-> <<"a">>, extras |-> TRUE]
DocC ==
    [title_tag |-> <<<<"A">>>>, time |-> "absent", canonical |-> "absent",
     container |-> "article", text |-> <<"a", " ", "a">>, extras |-> FALSE]
DocD ==
    [title_tag |-> <<>>, time |-> BadDate, canonical |-> "nohref",
     container |-> "article",
     text |-> <<" ", "a", " ", "a", "\n", "\n", "M", "b">>, extras |-> FALSE]

\* f.read() of a file that can be read.
FileContent(name) ==
    CASE name = FileA -> DocA [] name = FileB -> DocA
      [] name = FileC -> DocC [] OTHER -> DocD

\* The order of str: by code point, token by token.
TokenRank(c) ==
    CASE c = " " -> 1 [] c = "-" -> 2 [] c = ".html" -> 3 [] c = "A" -> 4
      [] c = "B" -> 5 [] c = "C" -> 6 [] c = "D" -> 7 [] c = "SBT" -> 8
      [] c = "sbt" -> 9 [] OTHER -> 10

RECURSIVE NameLess(_, _)
NameLess(x, y) ==
    IF y = <<>> THEN FALSE
    ELSE IF x = <<>> THEN TRUE
    ELSE IF Head(x) = Head(y) THEN NameLess(Tail(x), Tail(y))
    ELSE TokenRank(Head(x)) < TokenRank(Head(y))

\* The file list as the directory happens to yield it, here in descending
\* order: directory.glob('*.html') without sorted().
RECURSIVE glob_unsorted(_)
glob_unsorted(names) ==
    IF names = {} THEN <<>>
    ELSE LET greatest == CHOOSE x \in names : \A y \in names \ {x} : NameLess(y, x)
         IN  <<greatest>> \o glob_unsorted(names \ {greatest})

\* sorted(directory.glob('*.html')) for a directory holding the files names.
RECURSIVE sorted(_)
sorted(names) ==
    IF names = {} THEN <<>>
    ELSE LET least == CHOOSE x \in names : \A y \in names \ {x} : NameLess(x, y)
         IN  <<least>> \o sorted(names \ {least})

\* What a directory may hold when a batch lists it.
Directories == {d \in SUBSET FileNames : Cardinality(d) <= MaxFiles}

\* ------------------------------------------------------------ the store
\* .select("issue_id").eq(column, value).limit(1).execute().data: at most one
\* of the rows whose column equals value.
select_eq_limit_1(table, column, value) ==
    LET hits == {k \in 1..Len(table) : table[k][column] = value} IN
    IF hits = {} THEN <<>>
    ELSE <<[issue_id |-> table[CHOOSE k \in hits : \A j \in hits : k <= j].issue_id]>>

\* The digest cut short on its way into the row.
NewRow_TruncatedHash(table, record, p) ==
    [issue_id |-> Len(table) + 1, title |-> record.title,
     content_hash |-> SubSeq(record.content_hash, 1, Len(record.content_hash) - 1),
     by |-> p]

\* The row .insert(record) persists: the record's columns, the generated
\* identifier and (for the analysis only) the process that inserted it.
NewRow(table, record, p) ==
    [issue_id |-> Len(table) + 1, title |-> record.title,
     content_hash |-> record.content_hash, by |-> p]

\* ---------------------------------------------------------------- state
Procs == {1, 2}

VARIABLES
    store,          \* the table stratechery_issues: the rows in insertion order
    pc,             \* per process: where ingest_html_files stands
    html_files,     \* per process: the sorted list of the batch
    index,          \* per process: the loop's i
    data,           \* per process: the record of the document in hand, or NoData
    successful,     \* per process: the counters
    skipped,
    failed,
    returned,       \* per process: <<>> until ingest_html_files returns, then <<value>>
    cur,            \* per process: file -> its outcome in this batch
    history,        \* document -> the outcomes of its first two attempts
    rows_at_start,  \* per process: rows in the store when the batch began
    dups_at_start,  \* per process: files whose content was stored by then
    faults,         \* failures injected so far
    xin,            \* the extractor's input under ExtractSpec
    xout            \* and its result: <<>> before the call, then <<record>>

ingest_vars ==
    <<store, pc, html_files, index, data, successful, skipped, failed,
      returned, cur, history, rows_at_start, dups_at_start, faults>>
vars == <<ingest_vars, xin, xout>>

\* The local data before its first assignment, and the run that has not
\* returned: <<>> where a run that has returned holds <<value>>.
NoData == [unbound |-> TRUE]
NotReturned == <<>>

NoOutcome == "none"
Outcomes ==
    {"successful", "skipped_hash", "skipped_title", "failed_unreadable",
     "failed_store", "failed_no_data"}
NoOutcomes == [f \in FileNames |-> NoOutcome]

\* Line 115, data = extract_article_data(html_content, file_path.name), for
\* each file that can be read (computed once, the function being pure).
Records == [name \in FileNames |-> extract_article_data(FileContent(name), name)]
RecordOf(name) == Records[name]

\* The document in hand.
file_path(p) == html_files[p][index[p]]

\* The documents: two files with the same content are the same document.
Documents == {FileContent(name) : name \in FileNames}
NoHistory == [d \in Documents |-> <<>>]
Remember(p, outcome) ==
    [history EXCEPT ![FileContent(file_path(p))] =
        IF Len(@) < 2 THEN Append(@, outcome) ELSE @]

Init ==
    /\ store = <<>>
    /\ pc = [p \in Procs |-> "start"]
    /\ html_files = [p \in Procs |-> <<>>]
    /\ index = [p \in Procs |-> 1]
    /\ data = [p \in Procs |-> NoData]
    /\ successful = [p \in Procs |-> 0]
    /\ skipped = [p \in Procs |-> 0]
    /\ failed = [p \in Procs |-> 0]
    /\ returned = [p \in Procs |-> NotReturned]
    /\ cur = [p \in Procs |-> NoOutcomes]
    /\ history = NoHistory
    /\ rows_at_start = [p \in Procs |-> 0]
    /\ dups_at_start = [p \in Procs |-> {}]
    /\ faults = 0
    /\ xin = None
    /\ xout = <<>>

CanFail == faults < MaxFaults

\* The three ways a document's turn ends (continue, or the end of the loop
\* body): one counter goes up by one and the loop moves on.
CountSuccessful(p) ==
    /\ successful' = [successful EXCEPT ![p] = @ + 1]
    /\ cur' = [cur EXCEPT ![p][file_path(p)] = "successful"]
    /\ history' = Remember(p, "successful")
    /\ index' = [index EXCEPT ![p] = @ + 1]
    /\ pc' = [pc EXCEPT ![p] = "loop"]
    /\ UNCHANGED <<skipped, failed>>

CountSkipped(p, why) ==
    /\ skipped' = [skipped EXCEPT ![p] = @ + 1]
    /\ cur' = [cur EXCEPT ![p][file_path(p)] = why]
    /\ history' = Remember(p, why)
    /\ index' = [index EXCEPT ![p] = @ + 1]
    /\ pc' = [pc EXCEPT ![p] = "loop"]
    /\ UNCHANGED <<successful, failed>>

\* The except branch without its failed += 1.
CountFailed_NotCounted(p, why) ==
    /\ cur' = [cur EXCEPT ![p][file_path(p)] = why]
    /\ history' = Remember(p, why)
    /\ index' = [index EXCEPT ![p] = @ + 1]
    /\ pc' = [pc EXCEPT ![p] = "loop"]
    /\ UNCHANGED <<successful, skipped, failed>>

\* The except branch that counts the failure and leaves the loop on the same
\* document, which is then tried again.
CountFailed_Retries(p, why) ==
    /\ failed' = [failed EXCEPT ![p] = @ + 1]
    /\ cur' = [cur EXCEPT ![p][file_path(p)] = why]
    /\ history' = Remember(p, why)
    /\ pc' = [pc EXCEPT ![p] = "loop"]
    /\ UNCHANGED <<successful, skipped, index>>

CountFailed(p, why) ==
    /\ failed' = [failed EXCEPT ![p] = @ + 1]
    /\ cur' = [cur EXCEPT ![p][file_path(p)] = why]
    /\ history' = Remember(p, why)
    /\ index' = [index EXCEPT ![p] = @ + 1]
    /\ pc' = [pc EXCEPT ![p] = "loop"]
    /\ UNCHANGED <<successful, skipped>>

\* Lines 95-104: the store client, the file list, the counters.  An exception
\* of get_supabase_client() is outside the loop's try and leaves the function.
Begin(p) ==
    /\ pc[p] = "start"
    /\ \/ /\ CanFail
          /\ faults' = faults + 1
          /\ pc' = [pc EXCEPT ![p] = "crashed"]
          /\ UNCHANGED <<store, html_files, index, data, successful, skipped,
                         failed, returned, cur, history, rows_at_start, dups_at_start>>
       \/ \E directory \in Directories :
          /\ html_files' = [html_files EXCEPT ![p] = sorted(directory)]
          /\ index' = [index EXCEPT ![p] = 1]
          /\ successful' = [successful EXCEPT ![p] = 0]
          /\ skipped' = [skipped EXCEPT ![p] = 0]
          /\ failed' = [failed EXCEPT ![p] = 0]
          /\ returned' = [returned EXCEPT ![p] = NotReturned]
          /\ rows_at_start' = [rows_at_start EXCEPT ![p] = Len(store)]
          /\ dups_at_start' = [dups_at_start EXCEPT ![p] =
                {f \in directory :
                    select_eq_limit_1(store, "content_hash", RecordOf(f).content_hash) # <<>>}]
          /\ pc' = [pc EXCEPT ![p] = "loop"]
          /\ UNCHANGED <<store, data, cur, history, faults>>
    /\ UNCHANGED <<xin, xout>>

\* The read outside the try: its exception leaves the function.
ReadAndExtract_Uncaught(p) ==
    /\ pc[p] = "loop"
    /\ index[p] <= Len(html_files[p])
    /\ \/ /\ CanFail
          /\ faults' = faults + 1
          /\ pc' = [pc EXCEPT ![p] = "crashed"]
          /\ UNCHANGED <<data, index, successful, skipped, failed, cur, history>>
       \/ LET record == RecordOf(file_path(p)) IN
          /\ data' = [data EXCEPT ![p] = record]
          /\ pc' = [pc EXCEPT ![p] = "check_hash"]
          /\ UNCHANGED <<index, successful, skipped, failed, cur, history, faults>>
    /\ UNCHANGED <<store, html_files, returned, rows_at_start, dups_at_start, xin, xout>>

\* Lines 106-118: read the file and extract; an exception of either is caught
\* at line 162.
ReadAndExtract(p) ==
    /\ pc[p] = "loop"
    /\ index[p] <= Len(html_files[p])
    /\ \/ /\ CanFail
          /\ faults' = faults + 1
          /\ CountFailed(p, "failed_unreadable")
          /\ UNCHANGED data
       \/ LET record == RecordOf(file_path(p)) IN
          IF record.raised
          THEN /\ CountFailed(p, "failed_unreadable")
               /\ UNCHANGED <<data, faults>>
          ELSE /\ data' = [data EXCEPT ![p] = record]
               /\ pc' = [pc EXCEPT ![p] = "check_hash"]
               /\ UNCHANGED <<index, successful, skipped, failed, cur, history, faults>>
    /\ UNCHANGED <<store, html_files, returned, rows_at_start, dups_at_start, xin, xout>>

\* The lookup by content hash with its result ignored.
CheckContentHash_NeverSkips(p) ==
    /\ pc[p] = "check_hash"
    /\ \/ /\ CanFail
          /\ faults' = faults + 1
          /\ CountFailed(p, "failed_store")
       \/ /\ pc' = [pc EXCEPT ![p] = "check_title"]
          /\ UNCHANGED <<index, successful, skipped, failed, cur, history, faults>>
    /\ UNCHANGED <<store, html_files, data, returned, rows_at_start,
                   dups_at_start, xin, xout>>

\* Lines 120-130: the lookup by content hash.
CheckContentHash(p) ==
    /\ pc[p] = "check_hash"
    /\ \/ /\ CanFail
          /\ faults' = faults + 1
          /\ CountFailed(p, "failed_store")
       \/ LET existing == select_eq_limit_1(store, "content_hash", data[p].content_hash) IN
          /\ IF existing # <<>>
             THEN CountSkipped(p, "skipped_hash")
             ELSE /\ pc' = [pc EXCEPT ![p] = "check_title"]
                  /\ UNCHANGED <<index, successful, skipped, failed, cur, history>>
          /\ UNCHANGED faults
    /\ UNCHANGED <<store, html_files, data, returned, rows_at_start,
                   dups_at_start, xin, xout>>

\* The lookup by title outside the try: its exception leaves the function.
CheckTitle_Uncaught(p) ==
    /\ pc[p] = "check_title"
    /\ \/ /\ CanFail
          /\ faults' = faults + 1
          /\ pc' = [pc EXCEPT ![p] = "crashed"]
          /\ UNCHANGED <<index, successful, skipped, failed, cur, history>>
       \/ LET existing_title == select_eq_limit_1(store, "title", data[p].title) IN
          /\ IF existing_title # <<>>
             THEN CountSkipped(p, "skipped_title")
             ELSE /\ pc' = [pc EXCEPT ![p] = "insert"]
                  /\ UNCHANGED <<index, successful, skipped, failed, cur, history>>
          /\ UNCHANGED faults
    /\ UNCHANGED <<store, html_files, data, returned, rows_at_start,
                   dups_at_start, xin, xout>>

\* The lookup by title with its result ignored.
CheckTitle_NeverSkips(p) ==
    /\ pc[p] = "check_title"
    /\ \/ /\ CanFail
          /\ faults' = faults + 1
          /\ CountFailed(p, "failed_store")
       \/ /\ pc' = [pc EXCEPT ![p] = "insert"]
          /\ UNCHANGED <<index, successful, skipped, failed, cur, history, faults>>
    /\ UNCHANGED <<store, html_files, data, returned, rows_at_start,
                   dups_at_start, xin, xout>>

\* The lookup by title that, on a match, overwrites the stored row with the
\* record in hand (an upsert) before it skips.
CheckTitle_Upserts(p) ==
    /\ pc[p] = "check_title"
    /\ \/ /\ CanFail
          /\ faults' = faults + 1
          /\ CountFailed(p, "failed_store")
          /\ UNCHANGED store
       \/ LET hits == {k \in 1..Len(store) : store[k].title = data[p].title} IN
          /\ IF hits # {}
             THEN /\ store' = [k \in 1..Len(store) |->
                                  IF k \in hits
                                  THEN [store[k] EXCEPT !.content_hash = data[p].content_hash]
                                  ELSE store[k]]
                  /\ CountSkipped(p, "skipped_title")
             ELSE /\ pc' = [pc EXCEPT ![p] = "insert"]
                  /\ UNCHANGED <<store, index, successful, skipped, failed, cur, history>>
          /\ UNCHANGED faults
    /\ UNCHANGED <<html_files, data, returned, rows_at_start,
                   dups_at_start, xin, xout>>

\* Lines 132-142: the lookup by title.
CheckTitle(p) ==
    /\ pc[p] = "check_title"
    /\ \/ /\ CanFail
          /\ faults' = faults + 1
          /\ CountFailed(p, "failed_store")
       \/ LET existing_title == select_eq_limit_1(store, "title", data[p].title) IN
          /\ IF existing_title # <<>>
             THEN CountSkipped(p, "skipped_title")
             ELSE /\ pc' = [pc EXCEPT ![p] = "insert"]
                  /\ UNCHANGED <<index, successful, skipped, failed, cur, history>>
          /\ UNCHANGED faults
    /\ UNCHANGED <<store, html_files, data, returned, rows_at_start,
                   dups_at_start, xin, xout>>

\* The insert without the test of response.data: whatever returns counts as
\* ingested.
Insert_IgnoresResponse(p) ==
    /\ pc[p] = "insert"
    /\ \/ /\ CanFail
          /\ faults' = faults + 1
          /\ \E persisted \in BOOLEAN :
                store' = IF persisted THEN Append(store, NewRow(store, data[p], p))
                         ELSE store
          /\ CountFailed(p, "failed_store")
       \/ \E response_data \in {<<>>, <<NewRow(store, data[p], p)>>} :
          /\ response_data = <<>> => CanFail
          /\ store' = store \o response_data
          /\ CountSuccessful(p)
          /\ faults' = IF response_data = <<>> THEN faults + 1 ELSE faults
    /\ UNCHANGED <<html_files, data, returned, rows_at_start, dups_at_start,
                   xin, xout>>

\* Lines 144-160: the insert and the test of its response.  The call raises
\* (with the row persisted or not: the acknowledgement may be what was lost),
\* or returns the persisted row, or returns no data and persists nothing.
Insert(p) ==
    /\ pc[p] = "insert"
    /\ \/ /\ CanFail
          /\ faults' = faults + 1
          /\ \E persisted \in BOOLEAN :
                store' = IF persisted THEN Append(store, NewRow(store, data[p], p))
                         ELSE store
          /\ CountFailed(p, "failed_store")
       \/ \E response_data \in {<<>>, <<NewRow(store, data[p], p)>>} :
          /\ response_data = <<>> => CanFail
          /\ store' = store \o response_data
          /\ IF response_data # <<>>
             THEN CountSuccessful(p) /\ UNCHANGED faults
             ELSE CountFailed(p, "failed_no_data") /\ faults' = faults + 1
    /\ UNCHANGED <<html_files, data, returned, rows_at_start, dups_at_start,
                   xin, xout>>

\* Lines 166-174: the summary and the return.
Summary(p) ==
    /\ pc[p] = "loop"
    /\ index[p] > Len(html_files[p])
    /\ pc' = [pc EXCEPT ![p] = "done"]
    /\ returned' = [returned EXCEPT ![p] = <<successful[p]>>]
    /\ UNCHANGED <<store, html_files, index, data, successful, skipped, failed,
                   cur, history, rows_at_start, dups_at_start, faults, xin, xout>>

\* Lines 177-179: the script is run again, in a new process: the locals of the
\* run before are gone.
RunAgain(p) ==
    /\ pc[p] \in {"done", "crashed"}
    /\ pc' = [pc EXCEPT ![p] = "start"]
    /\ html_files' = [html_files EXCEPT ![p] = <<>>]
    /\ index' = [index EXCEPT ![p] = 1]
    /\ data' = [data EXCEPT ![p] = NoData]
    /\ successful' = [successful EXCEPT ![p] = 0]
    /\ skipped' = [skipped EXCEPT ![p] = 0]
    /\ failed' = [failed EXCEPT ![p] = 0]
    /\ returned' = [returned EXCEPT ![p] = NotReturned]
    /\ cur' = [cur EXCEPT ![p] = NoOutcomes]
    /\ rows_at_start' = [rows_at_start EXCEPT ![p] = 0]
    /\ dups_at_start' = [dups_at_start EXCEPT ![p] = {}]
    /\ UNCHANGED <<store, history, faults, xin, xout>>

Step(p) ==
    \/ Begin(p)
    \/ ReadAndExtract(p)
    \/ CheckContentHash(p)
    \/ CheckTitle(p)
    \/ Insert(p)
    \/ Summary(p)

\* One ingest process, the only writer of the store, run again and again.
Next == Step(1) \/ RunAgain(1)

Spec == Init /\ [][Next]_vars

\* The interpreter goes on with the loop: each of its steps, once it can be
\* taken, is taken.  (Nothing makes anyone run the script, or run it again.)
LoopFairness ==
    /\ WF_vars(ReadAndExtract(1))
    /\ WF_vars(CheckContentHash(1))
    /\ WF_vars(CheckTitle(1))
    /\ WF_vars(Insert(1))
    /\ WF_vars(Summary(1))

LiveSpec == Spec /\ LoopFairness

\* Two ingest processes started against the same store, each run once; the
\* race needs no failure, and none is injected.
InitRace ==
    /\ store = <<>>
    /\ pc = [p \in Procs |-> "start"]
    /\ html_files = [p \in Procs |-> <<>>]
    /\ index = [p \in Procs |-> 1]
    /\ data = [p \in Procs |-> NoData]
    /\ successful = [p \in Procs |-> 0]
    /\ skipped = [p \in Procs |-> 0]
    /\ failed = [p \in Procs |-> 0]
    /\ returned = [p \in Procs |-> NotReturned]
    /\ cur = [p \in Procs |-> NoOutcomes]
    /\ history = NoHistory
    /\ rows_at_start = [p \in Procs |-> 0]
    /\ dups_at_start = [p \in Procs |-> {}]
    /\ faults = MaxFaults
    /\ xin = None
    /\ xout = <<>>

NextRace == \E p \in Procs : Step(p)

RaceSpec == InitRace /\ [][NextRace]_vars

\* The insert raised although the store persisted the row.
LostAcknowledgement ==
    /\ pc[1] = "insert"
    /\ store' # store
    /\ cur'[1][file_path(1)] = "failed_store"

\* One ingest process against a store that persists a row exactly when it
\* returns it: an insert that raises has stored nothing.
NextAcked ==
    \/ Begin(1)
    \/ ReadAndExtract(1)
    \/ CheckContentHash(1)
    \/ CheckTitle(1)
    \/ Insert(1) /\ ~LostAcknowledgement
    \/ Summary(1)
    \/ RunAgain(1)

AckSpec == Init /\ [][NextAcked]_vars

\* ------------------------------------------------- the extractor alone
Pieces == {<<"a">>, <<" ">>, <<"\n">>, <<"\n", "\n", "\n">>, <<"m">>, <<"M">>}

RECURSIVE TextsUpTo(_)
TextsUpTo(n) ==
    IF n = 0 THEN {<<>>}
    ELSE LET shorter == TextsUpTo(n - 1) IN
         shorter \cup {t \o piece : t \in shorter, piece \in Pieces}

Texts == TextsUpTo(MaxPieces)

TitleTags ==
    {<<"A">>, <<"A", " ", "ndash", " ", "SBT">>, <<"A", "-", "SBT", " ">>,
     <<"A", " ", "ndash", " ", "sbt">>,
     <<"A", " ", "-", " ", "SBT", " ", "-", " ", "SBT">>}
Labels ==
    {<<"A", ".html">>, <<"A", " ", "ndash", " ", "SBT", ".html">>,
     <<"A", " ", "-", " ", "SBT", ".html">>}
DefaultLabel == <<"A", ".html">>

Times == {"absent", IsoDate, IsoDateZ, BadDate}
Canonicals == {"absent", "nohref", "href"}
Containers == {"entry", "article", "none"}

\* The (document, label) pairs extract_article_data is applied to.  Two
\* families, after the code's data flow: every text in every container, with
\* and without a <title> (the whole-document text holds it) and the extra
\* elements; and every combination of the optional elements and labels (the
\* label is read only without a <title>) around three texts.
MarkupTexts == {<<>>, <<"a">>, <<" ", "a", "\n", "\n", "\n", "M", "a">>}

BodyInputs ==
    {[html |-> [title_tag |-> tt, time |-> "absent", canonical |-> "absent",
                container |-> ct, text |-> tx, extras |-> ex],
      filename |-> DefaultLabel] :
        tt \in {<<>>, <<<<"A">>>>}, ct \in Containers, tx \in Texts, ex \in BOOLEAN}

MarkupInputs ==
    {[html |-> [title_tag |-> tl[1], time |-> tm, canonical |-> cn,
                container |-> ct, text |-> tx, extras |-> ex],
      filename |-> tl[2]] :
        tl \in ({<<t>> : t \in TitleTags} \X {DefaultLabel}) \cup ({<<>>} \X Labels),
        tm \in Times, cn \in Canonicals, ct \in Containers,
        tx \in MarkupTexts, ex \in BOOLEAN}

ExtractInputs == BodyInputs \cup MarkupInputs

InitExtract ==
    /\ store = <<>>
    /\ pc = [p \in Procs |-> "start"]
    /\ html_files = [p \in Procs |-> <<>>]
    /\ index = [p \in Procs |-> 1]
    /\ data = [p \in Procs |-> NoData]
    /\ successful = [p \in Procs |-> 0]
    /\ skipped = [p \in Procs |-> 0]
    /\ failed = [p \in Procs |-> 0]
    /\ returned = [p \in Procs |-> NotReturned]
    /\ cur = [p \in Procs |-> NoOutcomes]
    /\ history = NoHistory
    /\ rows_at_start = [p \in Procs |-> 0]
    /\ dups_at_start = [p \in Procs |-> {}]
    /\ faults = 0
    /\ xin \in ExtractInputs
    /\ xout = <<>>

\* extract_article_data(html_content, filename) is called.
Extract ==
    /\ xout = <<>>
    /\ xout' = <<extract_article_data(xin.html, xin.filename)>>
    /\ UNCHANGED <<ingest_vars, xin>>

NextExtract == Extract

ExtractSpec == InitExtract /\ [][NextExtract]_vars

\* ================================================================ claims
HasRowWith(column, value) == \E k \in 1..Len(store) : store[k][column] = value

\* C1: ingest never issues an insert for a record whose content_hash or whose
\* title equals that of a row already in the store; so, with ingest the only
\* writer, no two stored rows ever share a content_hash or a title.
C1_Uniqueness ==
    /\ \A p \in Procs :
          pc[p] = "insert" =>
             /\ ~HasRowWith("content_hash", data[p].content_hash)
             /\ ~HasRowWith("title", data[p].title)
    /\ \A j, k \in 1..Len(store) :
          j # k => /\ store[j].content_hash # store[k].content_hash
                   /\ store[j].title # store[k].title

\* Two rows are stored and a duplicate has been turned away.
C1_Witness ==
    /\ Len(store) >= 2
    /\ \E f \in FileNames : cur[1][f] \in {"skipped_hash", "skipped_title"}

\* C2 as stated, read in its favour for the runs in which nothing fails: the
\* first two attempts of a document are one 'successful' and one 'skipped' on
\* the content-hash lookup.
C2_Original ==
    \A d \in Documents :
        (faults = 0 /\ Len(history[d]) = 2) =>
            \/ history[d] = <<"successful", "skipped_hash">>
            \/ history[d] = <<"skipped_hash", "successful">>

\* C2, amended: a document is never counted successful twice; when its first
\* attempt is counted successful, the second is skipped on the content-hash
\* lookup unless reading it or that lookup raises.
C2_Idempotence ==
    \A d \in Documents :
        Len(history[d]) = 2 =>
            /\ history[d][2] # "successful" \/ history[d][1] # "successful"
            /\ history[d][1] = "successful" =>
                  history[d][2] \in {"skipped_hash", "failed_unreadable", "failed_store"}

\* A document was ingested and then, attempted again, skipped by its hash.
C2_Witness ==
    \E d \in Documents : history[d] = <<"successful", "skipped_hash">>

\* Files f before g, with the same extracted title and different cleaned text.
SameTitleOtherBody(f, g) ==
    /\ NameLess(f, g)
    /\ RecordOf(f).title = RecordOf(g).title
    /\ RecordOf(f).cleaned_text # RecordOf(g).cleaned_text
    /\ RecordOf(f).content_hash # RecordOf(g).content_hash

\* Whether the batch of p has added a row for the file g.
InsertedInBatch(p, g) ==
    \E k \in (rows_at_start[p] + 1)..Len(store) :
        /\ store[k].title = RecordOf(g).title
        /\ store[k].content_hash = RecordOf(g).content_hash

\* C3 as stated, read in its favour for the runs in which nothing fails: of
\* two documents of one batch with the same title and different bodies, the
\* first is counted successful and the second skipped by the title lookup.
C3_Original ==
    \A f, g \in FileNames :
        (/\ faults = 0
         /\ SameTitleOtherBody(f, g)
         /\ cur[1][f] # NoOutcome
         /\ cur[1][g] # NoOutcome)
            => cur[1][f] = "successful" /\ cur[1][g] = "skipped_title"

\* C3, amended: when the first of the two is counted successful, the second is
\* never inserted; it is skipped by the title lookup, unless an error is
\* raised for it or its own content hash is stored already (skipped by hash).
C3_TitleDedup ==
    \A f, g \in FileNames :
        (SameTitleOtherBody(f, g) /\ cur[1][f] = "successful" /\ cur[1][g] # NoOutcome)
            => /\ cur[1][g] \in {"skipped_title", "skipped_hash",
                                 "failed_unreadable", "failed_store"}
               /\ cur[1][g] = "skipped_hash"
                     => HasRowWith("content_hash", RecordOf(g).content_hash)
               /\ ~InsertedInBatch(1, g)

\* A.html was inserted and C.html, with A's title, skipped by the title lookup.
C3_Witness ==
    /\ cur[1][FileA] = "successful"
    /\ cur[1][FileC] = "skipped_title"
    /\ ~HasRowWith("content_hash", RecordOf(FileC).content_hash)

\* ------------------------------------------------------------- C4 to C7
FilesOf(p) == {html_files[p][k] : k \in 1..Len(html_files[p])}
WithOutcome(p, outcomes) == {f \in FilesOf(p) : cur[p][f] \in outcomes}

\* F: the documents of the batch whose read raised.
Unreadable(p) == WithOutcome(p, {"failed_unreadable"})
\* D: the documents of the batch that were read and whose content was in the
\* store when the batch began.
Duplicates(p) == dups_at_start[p] \ Unreadable(p)

\* C4 as stated: at the summary successful + skipped + failed = N,
\* skipped >= D and failed >= F.
C4_Original ==
    pc[1] = "done" =>
        /\ successful[1] + skipped[1] + failed[1] = Len(html_files[1])
        /\ skipped[1] >= Cardinality(Duplicates(1))
        /\ failed[1] >= Cardinality(Unreadable(1))

\* C4, amended: every document that has had its turn counts in exactly one
\* counter, so that at the summary successful + skipped + failed = N; there
\* failed >= F and skipped + failed >= D + F (a duplicate is skipped unless
\* its lookup raises, and then it is counted failed).
C4_BatchCounters ==
    /\ pc[1] \in {"loop", "check_hash", "check_title", "insert", "done"} =>
          /\ successful[1] + skipped[1] + failed[1] = index[1] - 1
          /\ successful[1] = Cardinality(WithOutcome(1, {"successful"}))
          /\ skipped[1] = Cardinality(WithOutcome(1, {"skipped_hash", "skipped_title"}))
          /\ failed[1] = Cardinality(WithOutcome(1,
                            {"failed_unreadable", "failed_store", "failed_no_data"}))
    /\ pc[1] = "done" =>
          /\ successful[1] + skipped[1] + failed[1] = Len(html_files[1])
          /\ failed[1] >= Cardinality(Unreadable(1))
          /\ skipped[1] + failed[1]
                >= Cardinality(Duplicates(1)) + Cardinality(Unreadable(1))

\* A batch of two documents, one a duplicate of stored content and one
\* unreadable, has reached its summary.
C4_Witness ==
    /\ pc[1] = "done"
    /\ Len(html_files[1]) = 2
    /\ Cardinality(Duplicates(1)) = 1
    /\ Cardinality(Unreadable(1)) = 1

InLoop(p) == pc[p] \in {"loop", "check_hash", "check_title", "insert"}
RaisedFor(p, f) ==
    /\ cur[p][f] = NoOutcome
    /\ cur'[p][f] \in {"failed_unreadable", "failed_store"}

\* C5: an exception raised for a document (by the read, the extraction, a
\* lookup or the insert) adds one to failed and to no other counter and moves
\* the loop to the next document; no step of the loop ends the run, and at the
\* summary every document of the list has had its turn.
C5_FailureIsolation ==
    /\ [](pc[1] = "done" => \A f \in FilesOf(1) : cur[1][f] # NoOutcome)
    /\ [][/\ InLoop(1) => pc'[1] \in {"loop", "check_hash", "check_title", "insert", "done"}
          /\ \A f \in FileNames :
                RaisedFor(1, f) =>
                    /\ f = file_path(1)
                    /\ failed'[1] = failed[1] + 1
                    /\ successful'[1] = successful[1]
                    /\ skipped'[1] = skipped[1]
                    /\ index'[1] = index[1] + 1
                    /\ pc'[1] = "loop"
                    /\ html_files' = html_files
                    /\ \A g \in FileNames \ {f} : cur'[1][g] = cur[1][g]]_vars

\* The first document of a batch raised and the second has had its turn.
C5_Witness ==
    /\ Len(html_files[1]) = 2
    /\ cur[1][html_files[1][1]] \in {"failed_unreadable", "failed_store"}
    /\ cur[1][html_files[1][2]] # NoOutcome

\* C6 as stated: no error ends a run before its summary, a failure to obtain
\* the store client included.
C6_Original == pc[1] # "crashed"

\* C6, amended: once the store client is there and the files are listed, the
\* run always reaches the summary, with every listed file processed and
\* the count of successes returned.
C6_ReachesSummary ==
    InLoop(1) ~>
        (/\ pc[1] = "done"
         /\ index[1] = Len(html_files[1]) + 1
         /\ \A f \in FilesOf(1) : cur[1][f] # NoOutcome
         /\ returned[1] = <<successful[1]>>)

\* A run in which a document failed has reached its summary.
C6_Witness ==
    /\ pc[1] = "done"
    /\ Len(html_files[1]) = 2
    /\ failed[1] >= 1

\* C7: when the insert returns without raising, the document is counted
\* successful exactly if the response carries the row; with no data it is
\* counted failed, nothing is stored, and the loop goes on.
C7_StoreAnomaly ==
    [][(/\ pc[1] = "insert"
        /\ pc'[1] # "insert"
        /\ cur'[1][file_path(1)] # "failed_store")
       => LET confirmed == Len(store') = Len(store) + 1 IN
          /\ cur'[1][file_path(1)] = "successful" <=> confirmed
          /\ successful'[1] = successful[1] + 1 <=> confirmed
          /\ ~confirmed =>
                /\ cur'[1][file_path(1)] = "failed_no_data"
                /\ store' = store
                /\ failed'[1] = failed[1] + 1
                /\ successful'[1] = successful[1]
                /\ skipped'[1] = skipped[1]
                /\ pc'[1] = "loop"
                /\ index'[1] = index[1] + 1]_vars

\* An insert returned no data and the batch went on to the next document.
C7_Witness ==
    /\ Len(html_files[1]) = 2
    /\ cur[1][html_files[1][1]] = "failed_no_data"
    /\ cur[1][html_files[1][2]] = "successful"

\* ------------------------------------------------------------ C8 to C10
\* C8: the two lookups and the insert of a document are three store
\* operations with nothing held between them.  With two ingest processes on
\* one store, rows that share a content_hash or a title come from different
\* processes only (one writer alone keeps the rows unique), and the state
\* C8_Witness, in which both passed both checks and both inserted, is reached.
C8_DuplicatesAcrossWritersOnly ==
    \A j, k \in 1..Len(store) :
        (/\ j # k
         /\ \/ store[j].content_hash = store[k].content_hash
            \/ store[j].title = store[k].title)
            => store[j].by # store[k].by

\* Both processes have counted the same content successful, and the store
\* holds two rows with one content_hash.
C8_Witness ==
    /\ \E f, g \in FileNames :
          /\ RecordOf(f).content_hash = RecordOf(g).content_hash
          /\ cur[1][f] = "successful"
          /\ cur[2][g] = "successful"
    /\ \E j, k \in 1..Len(store) :
          /\ j # k
          /\ store[j].content_hash = store[k].content_hash

\* The (cleaned_text, content_hash) pairs of the records of all inputs.
HashPairs ==
    {<<r.cleaned_text, r.content_hash>> :
        r \in {extract_article_data(in.html, in.filename) : in \in ExtractInputs}}

\* C9: the content_hash of a record is decided by its cleaned_text alone: any
\* other extraction, whatever its markup, title, date, URL or label, has the
\* same content_hash exactly if it has the same cleaned_text.
C9_HashOfCleanedText ==
    xout # <<>> =>
        \A pair \in HashPairs :
            (pair[1] = xout[1].cleaned_text) <=> (pair[2] = xout[1].content_hash)

\* A record whose cleaned text "a" came out of other raw text, in a document
\* with a date and a canonical link: inputs with plain "a" share its hash.
C9_Witness ==
    /\ xout # <<>>
    /\ xout[1].cleaned_text = <<"a">>
    /\ xin.html.text # <<"a">>
    /\ xin.html.title_tag # <<>>
    /\ xin.html.time = IsoDateZ
    /\ xin.html.canonical = "href"

C11_InsertOnly ==
    [][/\ Len(store') \in {Len(store), Len(store) + 1}
       /\ SubSeq(store', 1, Len(store)) = store
       /\ store' # store =>
             /\ pc[1] = "insert"
             /\ store'[Len(store')] = NewRow(store, data[1], 1)
       /\ pc[1] \in {"loop", "check_hash", "check_title"} => store' = store
       /\ \A f \in FileNames :
             (/\ cur[1][f] = NoOutcome
              /\ cur'[1][f] \in {"skipped_hash", "skipped_title"})
                => /\ store' = store
                   /\ pc[1] \in {"check_hash", "check_title"}]_vars

\* In a batch begun on a store of one row, a document was skipped by its
\* title and the store still holds that one row.
C11_Witness ==
    /\ rows_at_start[1] = 1
    /\ Len(store) = 1
    /\ \E f \in FileNames :
          /\ cur[1][f] = "skipped_title"
          /\ store[1].title = RecordOf(f).title
          /\ store[1].content_hash # RecordOf(f).content_hash

\* Whether a list of names ascends strictly in the order of str.
Ascending(list) == \A k \in 1..(Len(list) - 1) : NameLess(list[k], list[k + 1])

\* C12: the documents get their turns one after another in the sorted order
\* of the list: exactly the documents before the loop's position have their
\* outcome.  For the document in hand the steps are the content-hash lookup,
\* then the title lookup, taken only when the hash lookup found no row, then
\* the insert, taken only when neither lookup found a row; the position moves
\* on by one, and only in the step that gives the document its outcome.
C12_Ordering ==
    /\ [](/\ Ascending(html_files[1])
          /\ (InLoop(1) \/ pc[1] = "done") =>
                \A k \in 1..Len(html_files[1]) :
                    cur[1][html_files[1][k]] # NoOutcome <=> k < index[1]
          /\ pc[1] \in {"check_hash", "check_title", "insert"} =>
                /\ index[1] <= Len(html_files[1])
                /\ data[1] = RecordOf(file_path(1))
          /\ pc[1] \in {"check_title", "insert"} =>
                select_eq_limit_1(store, "content_hash", data[1].content_hash) = <<>>
          /\ pc[1] = "insert" =>
                select_eq_limit_1(store, "title", data[1].title) = <<>>)
    /\ [][/\ pc'[1] = "check_hash" => pc[1] = "loop"
          /\ pc'[1] = "check_title" => pc[1] = "check_hash"
          /\ pc'[1] = "insert" => pc[1] = "check_title"
          /\ InLoop(1) =>
                /\ html_files'[1] = html_files[1]
                /\ index'[1] \in {index[1], index[1] + 1}
                /\ index'[1] = index[1] + 1 <=>
                      (/\ index[1] <= Len(html_files[1])
                       /\ cur[1][file_path(1)] = NoOutcome
                       /\ cur'[1][file_path(1)] # NoOutcome)
                /\ index'[1] = index[1] + 1 => pc'[1] = "loop"]_vars

\* The second document of a batch is at its insert, after the first was
\* inserted.
C12_Witness ==
    /\ pc[1] = "insert"
    /\ index[1] = 2
    /\ cur[1][html_files[1][1]] = "successful"
    /\ cur[1][html_files[1][2]] = NoOutcome

\* C13: in one batch each document is attempted once.  No file is listed
\* twice; the document the loop works on (read, looked up or inserted) has no
\* outcome yet, and an outcome once given stands to the end of the batch; the
\* insert step always ends the document's turn, so the rows a batch adds are
\* no more than its documents whose turn ended at the insert.
C13_NoRetry ==
    /\ [](/\ \A j, k \in 1..Len(html_files[1]) :
                j # k => html_files[1][j] # html_files[1][k]
          /\ (InLoop(1) /\ index[1] <= Len(html_files[1])) =>
                cur[1][file_path(1)] = NoOutcome
          /\ (InLoop(1) \/ pc[1] = "done") =>
                /\ successful[1] + skipped[1] + failed[1] <= Len(html_files[1])
                /\ Len(store) - rows_at_start[1]
                      <= Cardinality(WithOutcome(1,
                            {"successful", "failed_store", "failed_no_data"})))
    /\ [][/\ \A f \in FileNames :
                (InLoop(1) /\ cur[1][f] # NoOutcome) => cur'[1][f] = cur[1][f]
          /\ pc[1] = "insert" =>
                /\ pc'[1] = "loop"
                /\ index'[1] = index[1] + 1
                /\ cur'[1][file_path(1)] # NoOutcome
                /\ Len(store') <= Len(store) + 1]_vars

\* A batch has reached its summary with its first document failed on a store
\* call or a silent non-insert, still failed and with no row of its content.
C13_Witness ==
    /\ pc[1] = "done"
    /\ Len(html_files[1]) = 2
    /\ cur[1][html_files[1][1]] \in {"failed_store", "failed_no_data"}
    /\ cur[1][html_files[1][2]] = "successful"
    /\ failed[1] = 1
    /\ ~HasRowWith("content_hash", RecordOf(html_files[1][1]).content_hash)

\* ---------------------------------------------------------- C14 to C16
NotWhitespace(t) == t \notin Whitespace

\* The part of a text before its first footer marker, in either letter case.
BeforeMarker(s) ==
    LET at == {k \in 1..Len(s) : s[k] \in Markers} IN
    IF at = {} THEN s
    ELSE SubSeq(s, 1, (CHOOSE k \in at : \A j \in at : k <= j) - 1)

\* C14: the cleaned_text of every record has no run of three newlines, no
\* footer marker in any letter case, and no whitespace at either end; it
\* keeps, in order, what the extracted text held before its first marker
\* other than whitespace; and the clean-up applied to it again changes nothing.
C14_Normalized ==
    xout # <<>> =>
        LET cleaned == xout[1].cleaned_text IN
        /\ \A k \in 1..(Len(cleaned) - 2) :
              ~(cleaned[k] = "\n" /\ cleaned[k + 1] = "\n" /\ cleaned[k + 2] = "\n")
        /\ \A k \in 1..Len(cleaned) : cleaned[k] \notin Markers
        /\ cleaned # <<>> =>
              /\ cleaned[1] \notin Whitespace
              /\ cleaned[Len(cleaned)] \notin Whitespace
        /\ SelectSeq(cleaned, NotWhitespace)
              = SelectSeq(BeforeMarker(body_text(xin.html)), NotWhitespace)
        /\ clean_up_text(cleaned) = cleaned

\* A body with a run of three newlines, a marker after it and text after the
\* marker has come out as the text before the run.
C14_Witness ==
    /\ xout # <<>>
    /\ xin.html.text = <<"a", "\n", "\n", "\n", "M">>
    /\ xin.html.container = "article"
    /\ xin.html.extras
    /\ xout[1].cleaned_text = <<"a">>

\* The suffix in the source's spelling and in another letter case.
AnyCaseSuffix == {"SBT", "sbt"}

\* Whether s ends with a dash, optional whitespace and a token of suffixes.
EndsWithSuffix(s, suffixes) ==
    /\ Len(s) >= 2
    /\ s[Len(s)] \in suffixes
    /\ \E d \in 1..(Len(s) - 1) :
          /\ s[d] \in Dashes
          /\ \A k \in (d + 1)..(Len(s) - 1) : s[k] \in Whitespace

CountOf(token, s) == Cardinality({k \in 1..Len(s) : s[k] = token})

C16_SuccessfulCountsRows ==
    /\ (InLoop(1) \/ pc[1] = "done") =>
          /\ Len(store) = rows_at_start[1] + successful[1]
          /\ successful[1] = Cardinality(WithOutcome(1, {"successful"}))
          /\ \A f \in WithOutcome(1, {"successful"}) : InsertedInBatch(1, f)
    /\ pc[1] = "done" => returned[1] = <<successful[1]>>
    /\ InLoop(1) => returned[1] = NotReturned

\* A batch begun on a store of one row has returned 1: of its two documents
\* one was inserted and for the other the insert returned no data.
C16_Witness ==
    /\ pc[1] = "done"
    /\ rows_at_start[1] = 1
    /\ returned[1] = <<1>>
    /\ Len(store) = 2
    /\ \E f \in FilesOf(1) : cur[1][f] = "failed_no_data"

====
